---- MODULE Spec2Model ----
(***************************************************************************)
(* Request instrumentation of the tracing package                          *)
(* (packages/tracing/src/browser/request.ts): the fetch and XHR callbacks  *)
(* that create a child span of the active transaction when a request       *)
(* starts, attach the 'sentry-trace' header to it, keep the span in the    *)
(* `spans` record under its span id, and finish and remove it when the     *)
(* request ends.                                                           *)
(***************************************************************************)
EXTENDS Integers, Sequences, FiniteSets, TLC

\* ------------------------------------------------------------------ bounds

\* Number of network operations (handlerData objects) the environment issues.
NumOps == 2
\* Span ids are random tokens (uuid4 substring); the model draws them from
\* 1..MaxSpanId, so two live spans may draw the same id.
MaxSpanId == 2
\* How many end events (endTimestamp set) one operation may deliver.
MaxEnds == 2

OpIds == 1..NumOps
SpanIds == 1..MaxSpanId

\* --------------------------------------------------------------- constants

\* No correlation key on the event (__span / __sentry_xhr_span_id__ undefined).
NoKey == 0
\* `spans[key]` is undefined.
NoSpan == 0
\* Trace id of the active transaction (one trace tree in the model).
TraceIdOfTx == 9

\* URLs are sequences of tokens; a string pattern matches a URL that contains
\* the token, the regular expression /^\// matches a URL whose first token is
\* "/".
Urls ==
  { <<"/", "api">>, <<"/", "sentry_key">> }

DEFAULT_TRACING_ORIGINS ==
  { [kind |-> "string", s |-> "localhost"], [kind |-> "regex", s |-> "/"] }

SentryKeyPattern == [kind |-> "string", s |-> "sentry_key"]

\* ----------------------------------------------------------------- state

VARIABLES
  cfg,                \* options of registerRequestInstrumentation
  urlMap,             \* url -> decision cache of defaultShouldCreateSpan
  spans,              \* the registry: span id -> span (a reference)
  spanObjs,           \* every Span object created so far, by reference
  activeTransaction,  \* what getActiveTransaction() returns
  ops,                \* the operations: the persistent part of handlerData
  ev,                 \* the event the last callback handled, before and after
  hub,                \* the hub: client options, the transaction it started
  codec               \* a span context on its way through the header codec

vars == <<cfg, urlMap, spans, spanObjs, activeTransaction, ops, ev, hub, codec>>

\* ------------------------------------------------------- the origin filter

\* isMatchingPattern(value, pattern) of @sentry/utils: a regular expression is
\* tested against the value, a string pattern must be contained in it.
isMatchingPattern(url, pattern) ==
  IF pattern.kind = "regex"
  THEN Len(url) > 0 /\ url[1] = pattern.s
  ELSE \E n \in 1..Len(url) : url[n] = pattern.s

\* `urlMap[url]` read as a condition: set and true.
CacheHit(cache, url) ==
  url \in DOMAIN cache /\ cache[url]

\* A filter that asks every origin to match (`every` for `some`).
MatchOrigins_Every(url, origins) ==
  /\ \A origin \in origins : isMatchingPattern(url, origin)
  /\ ~isMatchingPattern(url, SentryKeyPattern)

\* origins.some(isMatchingPattern(url, origin)) && !isMatchingPattern(url, 'sentry_key')
MatchOrigins(url, origins) ==
  /\ \E origin \in origins : isMatchingPattern(url, origin)
  /\ ~isMatchingPattern(url, SentryKeyPattern)

\* `urlMap[url] = decision`
CachePut(cache, url, decision) ==
  [u \in (DOMAIN cache) \cup {url} |-> IF u = url THEN decision ELSE cache[u]]

\* A filter that forgets the 'sentry_key' exclusion.
defaultShouldCreateSpan_OriginsOnly(cache, url, origins) ==
  \E origin \in origins : isMatchingPattern(url, origin)

\* The value defaultShouldCreateSpan(url) returns.
defaultShouldCreateSpan(cache, url, origins) ==
  IF CacheHit(cache, url) THEN cache[url] ELSE MatchOrigins(url, origins)

\* Whether defaultShouldCreateSpan(url) evaluates the patterns on this call:
\* it does unless `urlMap[url]` is set and true.
MatchingPerformed(cache, url) ==
  ~CacheHit(cache, url)

\* What the cache holds for the URL: nothing, or the decision of an earlier
\* call.
CachedDecision(cache, url) ==
  IF url \in DOMAIN cache
  THEN IF cache[url] THEN "true" ELSE "false"
  ELSE "none"

\* A cache that records that the URL was seen instead of the decision.
urlMapAfter_CachesTrue(cache, url, origins) ==
  IF CacheHit(cache, url) THEN cache ELSE CachePut(cache, url, TRUE)

\* The cache after defaultShouldCreateSpan(url).
urlMapAfter(cache, url, origins) ==
  IF CacheHit(cache, url)
  THEN cache
  ELSE CachePut(cache, url, MatchOrigins(url, origins))

\* A caller's predicate that can also admit what the default filter rejects.
shouldCreateSpan_Or(cache, url, options, predResult) ==
  \/ defaultShouldCreateSpan(cache, url, options.tracingOrigins)
  \/ (options.hasPredicate /\ predResult)

\* shouldCreateSpan: the default filter, and then the caller's
\* shouldCreateSpanForRequest when one is configured. `predResult` is what the
\* caller's predicate returns on this call.
shouldCreateSpan(cache, url, options, predResult) ==
  /\ defaultShouldCreateSpan(cache, url, options.tracingOrigins)
  /\ (options.hasPredicate => predResult)

\* ------------------------------------------------------------ the registry

\* A lookup that falls back to any pending span when the key is unknown.
RegistryGet_AnyPending(reg, key) ==
  IF key \in DOMAIN reg THEN reg[key]
  ELSE IF DOMAIN reg # {} THEN reg[CHOOSE k \in DOMAIN reg : TRUE]
  ELSE NoSpan

\* `spans[key]`
RegistryGet(reg, key) ==
  IF key \in DOMAIN reg THEN reg[key] ELSE NoSpan

\* `spans[span.spanId] = span`
RegistryPut(reg, key, span) ==
  [k \in (DOMAIN reg) \cup {key} |-> IF k = key THEN span ELSE reg[k]]

\* An end branch that clears the whole registry.
RegistryDelete_All(reg, key) ==
  [k \in {} |-> NoSpan]

\* An end branch that forgets to delete the entry.
RegistryDelete_Keep(reg, key) ==
  reg

\* `delete spans[key]`
RegistryDelete(reg, key) ==
  [k \in (DOMAIN reg) \ {key} |-> reg[k]]

\* ------------------------------------------------------------------- spans

\* activeTransaction.startChild({...}): a new Span with a random span id, the
\* transaction's trace id and the transaction's sampling decision.
startChild(transaction, spanId, kind, creator) ==
  [ spanId |-> spanId,
    traceId |-> transaction.traceId,
    sampled |-> transaction.sampled,
    type |-> kind,
    creator |-> creator,
    status |-> "unset",
    finished |-> 0,
    finishedByKey |-> NoKey ]

\* span.toTraceparent(): trace id, span id and the sampled flag, the segments
\* of `${traceId}-${spanId}-${sampled ? 1 : 0}`.
toTraceparent(span) ==
  <<span.traceId, span.spanId, IF span.sampled THEN 1 ELSE 0>>

\* span.setHttpStatus(status)
setHttpStatus(span) ==
  [span EXCEPT !.status = "set"]

\* span.finish(), called by the end event carrying `key`.
finish(span, key) ==
  [span EXCEPT !.finished = @ + 1, !.finishedByKey = key]

\* The end branch on a registered span: status (when there is one), finish.
FinishedSpan(span, key, hasStatus) ==
  finish(IF hasStatus THEN setHttpStatus(span) ELSE span, key)

\* ----------------------------------------------------------- header sinks

SentryTrace == "sentry-trace"

NoHeaders == [shape |-> "absent", entries |-> <<>>]

\* Header containers a caller may pass as options.headers, each already
\* holding a header of the caller's.
CallerHeaders ==
  { NoHeaders,
    [shape |-> "append", entries |-> << <<"x-a", <<5>> >> >>],
    [shape |-> "array", entries |-> << <<"x-a", <<5>> >> >>],
    [shape |-> "object", entries |-> << <<"x-a", <<5>> >> >>] }

\* request.headers of a Request instance: a Headers object.
RequestHeaders ==
  [shape |-> "append", entries |-> << <<"x-r", <<6>> >> >>]

\* { ...headers, 'sentry-trace': value }: the key is replaced in place when
\* present and added last otherwise.
ObjectSpread(entries, name, value) ==
  IF \E n \in 1..Len(entries) : entries[n][1] = name
  THEN [n \in 1..Len(entries) |->
          IF entries[n][1] = name THEN <<name, value>> ELSE entries[n]]
  ELSE Append(entries, <<name, value>>)

\* The container the fetch callback writes to: request.headers for a Request,
\* else options.headers.
FetchHeaderSink(request, optHeaders, reqHeaders) ==
  IF request = "Request" THEN reqHeaders ELSE optHeaders

\* A header write that treats an array of pairs like an appendable
\* collection it cannot append to, and leaves it as it is.
WriteHeader_SkipsArray(headers, value) ==
  IF headers.shape = "absent"
  THEN [shape |-> "object", entries |-> << <<SentryTrace, value>> >>]
  ELSE IF headers.shape = "array"
       THEN headers
       ELSE IF headers.shape = "append"
            THEN [headers EXCEPT !.entries = Append(@, <<SentryTrace, value>>)]
            ELSE [shape |-> "object",
                  entries |-> ObjectSpread(headers.entries, SentryTrace, value)]

\* The header write of the fetch callback, by the shape of the sink.
WriteHeader(headers, value) ==
  IF headers.shape # "absent"
  THEN IF headers.shape = "append"
       THEN [headers EXCEPT !.entries = Append(@, <<SentryTrace, value>>)]
       ELSE IF headers.shape = "array"
            THEN [shape |-> "array",
                  entries |-> Append(headers.entries, <<SentryTrace, value>>)]
            ELSE [shape |-> "object",
                  entries |-> ObjectSpread(headers.entries, SentryTrace, value)]
  ELSE [shape |-> "object", entries |-> << <<SentryTrace, value>> >>]

\* Whether the fetch header write throws: only headers.append(...) can, when
\* the Headers object rejects mutation.
FetchWriteThrows(headers, rejects) ==
  headers.shape = "append" /\ rejects

\* Whether xhr.setRequestHeader(...) is called and returns: it may be absent,
\* and it throws when the request is not OPENED; the throw is caught.
XhrHeaderWritten(setRequestHeader) ==
  setRequestHeader = "ok"

\* Whether an exception leaves xhrCallback: the try/catch swallows it.
XhrWriteThrows(setRequestHeader) ==
  FALSE

HasHeader(headers, name, value) ==
  \E n \in 1..Len(headers.entries) : headers.entries[n] = <<name, value>>

\* Every entry of `before` is an entry of `after`.
KeepsHeaders(before, after) ==
  \A n \in 1..Len(before.entries) :
    \E m \in 1..Len(after.entries) : after.entries[m] = before.entries[n]

\* ------------------------------------------------------------ the events

NoTransaction == [present |-> FALSE, traceId |-> TraceIdOfTx, sampled |-> FALSE]

IdleOp ==
  [kind |-> "none", url |-> <<>>, own |-> FALSE, phase |-> "idle",
   ends |-> 0, key |-> NoKey]

\* What the caller passed to fetch(): a URL string or a Request, the headers
\* of the options, and whether an append-capable sink rejects mutation.
FetchArgs ==
  { a \in [request : {"string", "Request"}, optHeaders : CallerHeaders,
           rejects : BOOLEAN] :
      /\ a.rejects =>
           FetchHeaderSink(a.request, a.optHeaders, RequestHeaders).shape = "append"
      /\ a.request = "Request" => a.optHeaders.shape \in {"absent", "object"}
      /\ (a.request = "Request" /\ a.rejects) => a.optHeaders.shape = "absent" }

NoFetchArgs == [request |-> "string", optHeaders |-> NoHeaders, rejects |-> FALSE]

\* The arguments an end event is delivered with, when it has no key.
FetchEndArgs ==
  { a \in FetchArgs : a.request = "string" /\ ~a.rejects
                        /\ a.optHeaders.shape \in {"absent", "object"} }

\* xhr.setRequestHeader: callable, throwing (request not OPENED) or absent.
XhrSetRequestHeader == {"ok", "throws", "absent"}

NoEvent ==
  [op |-> 0, kind |-> "none", isEnd |-> FALSE, handled |-> FALSE,
   branch |-> "none", pred |-> TRUE, key |-> NoKey,
   url |-> <<>>, cached |-> "none", defaultOk |-> FALSE, matched |-> FALSE,
   eligible |-> FALSE, txActive |-> FALSE, found |-> NoSpan,
   created |-> NoSpan, finished |-> NoSpan, hasStatus |-> FALSE,
   request |-> "string", sink |-> "ok",
   headersBefore |-> NoHeaders, headersAfter |-> NoHeaders,
   reqHeadersBefore |-> NoHeaders, reqHeadersAfter |-> NoHeaders,
   written |-> FALSE, threw |-> FALSE]

\* `if (traceFetch)`: the fetch handler is registered.
FetchHandlerRegistered(options) == options.traceFetch

\* An xhr handler that is registered under the fetch flag.
XhrHandlerRegistered_ByTraceFetch(options) == options.traceFetch

\* `if (traceXHR)`: the xhr handler is registered.
XhrHandlerRegistered(options) == options.traceXHR

\* Branches that do not look at __sentry_own_request__.
Branch_IgnoresOwn(enabled, eligible, own, isEnd, key, transaction) ==
  IF ~enabled THEN "disabled"
  ELSE IF ~eligible THEN "filtered"
  ELSE IF isEnd /\ key # NoKey THEN "end"
  ELSE IF transaction.present THEN "start"
  ELSE "noTransaction"

\* A start branch that does not ask whether a transaction is active.
Branch_AnyTransaction(enabled, eligible, own, isEnd, key, transaction) ==
  IF ~enabled THEN "disabled"
  ELSE IF ~eligible THEN "filtered"
  ELSE IF own THEN "own"
  ELSE IF isEnd /\ key # NoKey THEN "end"
  ELSE "start"

\* A start branch that is taken only under a sampled transaction.
Branch_SampledOnly(enabled, eligible, own, isEnd, key, transaction) ==
  IF ~enabled THEN "disabled"
  ELSE IF ~eligible THEN "filtered"
  ELSE IF own THEN "own"
  ELSE IF isEnd /\ key # NoKey THEN "end"
  ELSE IF transaction.present /\ transaction.sampled THEN "start"
  ELSE "noTransaction"

\* The branch a callback takes: the transport is not instrumented
\* (traceFetch / traceXHR false), the URL is filtered out (or, for XHR, the
\* request is the SDK's own), the end branch (endTimestamp and a key on the
\* event), or the start branch with or without an active transaction.
Branch(enabled, eligible, own, isEnd, key, transaction) ==
  IF ~enabled THEN "disabled"
  ELSE IF ~eligible THEN "filtered"
  ELSE IF own THEN "own"
  ELSE IF isEnd /\ key # NoKey THEN "end"
  ELSE IF transaction.present THEN "start"
  ELSE "noTransaction"

\* The registry after a callback that took `branch`.
spansAfter(reg, branch, key, newSpan) ==
  IF branch = "end"
  THEN IF RegistryGet(reg, key) # NoSpan THEN RegistryDelete(reg, key) ELSE reg
  ELSE IF branch = "start"
       THEN RegistryPut(reg, newSpan.spanId, Len(spanObjs) + 1)
       ELSE reg

\* The Span objects after a callback that took `branch`.
spanObjsAfter(objs, reg, branch, key, hasStatus, newSpan) ==
  IF branch = "end"
  THEN IF RegistryGet(reg, key) # NoSpan
       THEN [objs EXCEPT ![RegistryGet(reg, key)] = FinishedSpan(@, key, hasStatus)]
       ELSE objs
  ELSE IF branch = "start" THEN Append(objs, newSpan) ELSE objs

\* A start branch that does not store the span's id on the event.
keyAfter_NotStored(branch, key, newSpan) ==
  key

\* The key on the event after the callback: the start branch stores the new
\* span's id (__span / __sentry_xhr_span_id__).
keyAfter(branch, key, newSpan) ==
  IF branch = "start" THEN newSpan.spanId ELSE key

\* _fetchCallback(handlerData, shouldCreateSpan, spans) for operation i, whose
\* persistent part after the event's bookkeeping is `op`.
fetchCallback(i, op, isEnd, predResult, hasResponse, args, newId) ==
  LET eligible == shouldCreateSpan(urlMap, op.url, cfg, predResult)
      branch == Branch(FetchHandlerRegistered(cfg), eligible, FALSE, isEnd, op.key,
                       activeTransaction)
      span == startChild(activeTransaction, newId, "fetch", i)
      reqHeaders == IF args.request = "Request" THEN RequestHeaders ELSE NoHeaders
      sink == FetchHeaderSink(args.request, args.optHeaders, reqHeaders)
      throws == branch = "start" /\ FetchWriteThrows(sink, args.rejects)
      writes == branch = "start" /\ ~throws
      result == WriteHeader(sink, toTraceparent(span))
      found == RegistryGet(spans, op.key)
  IN
  /\ urlMap' = IF branch = "disabled" THEN urlMap
               ELSE urlMapAfter(urlMap, op.url, cfg.tracingOrigins)
  /\ spans' = spansAfter(spans, branch, op.key, span)
  /\ spanObjs' = spanObjsAfter(spanObjs, spans, branch, op.key, hasResponse, span)
  /\ ops' = [ops EXCEPT ![i] = [op EXCEPT !.key = keyAfter(branch, op.key, span)]]
  /\ ev' = [ op |-> i, kind |-> "fetch", isEnd |-> isEnd,
             handled |-> branch # "disabled",
             branch |-> branch, pred |-> predResult, key |-> op.key,
             url |-> op.url,
             cached |-> CachedDecision(urlMap, op.url),
             defaultOk |-> branch # "disabled"
                           /\ defaultShouldCreateSpan(urlMap, op.url, cfg.tracingOrigins),
             matched |-> branch # "disabled" /\ MatchingPerformed(urlMap, op.url),
             eligible |-> eligible,
             txActive |-> activeTransaction.present,
             found |-> IF branch = "end" THEN found ELSE NoSpan,
             created |-> IF branch = "start" THEN Len(spanObjs) + 1 ELSE NoSpan,
             finished |-> IF branch = "end" THEN found ELSE NoSpan,
             hasStatus |-> hasResponse,
             request |-> args.request,
             sink |-> IF args.rejects THEN "throws" ELSE "ok",
             headersBefore |-> args.optHeaders,
             headersAfter |-> IF writes THEN result ELSE args.optHeaders,
             reqHeadersBefore |-> reqHeaders,
             reqHeadersAfter |->
               IF writes /\ args.request = "Request" THEN result ELSE reqHeaders,
             written |-> writes,
             threw |-> throws ]
  /\ UNCHANGED <<cfg, activeTransaction, hub, codec>>

\* Inputs a callback does not read on the path it takes are fixed, so that one
\* event is one transition: the caller's predicate is only called when it is
\* configured and the default filter accepts the URL, a span id is only drawn
\* by startChild, the response is only read by the end branch.
InputsRead(branch, defaultOk, predResult, newId, hasStatus) ==
  /\ (~(cfg.hasPredicate /\ defaultOk) \/ branch = "disabled") => predResult
  /\ branch # "start" => newId = 1
  /\ branch # "end" => ~hasStatus

\* The instrumentation calls the fetch handlers before the request is sent.
FetchStart(i, url, predResult, args, newId) ==
  /\ ops[i].phase = "idle"
  /\ i > 1 => ops[i - 1].phase # "idle"
  /\ InputsRead(Branch(FetchHandlerRegistered(cfg), shouldCreateSpan(urlMap, url, cfg, predResult),
                       FALSE, FALSE, NoKey, activeTransaction),
                defaultShouldCreateSpan(urlMap, url, cfg.tracingOrigins),
                predResult, newId, FALSE)
  /\ fetchCallback(i, [IdleOp EXCEPT !.kind = "fetch", !.url = url,
                                     !.phase = "started"],
                   FALSE, predResult, FALSE, args, newId)

\* ... and again, with endTimestamp (and the response, unless the request
\* failed), when it settles.
FetchEnd(i, predResult, hasResponse, args, newId) ==
  /\ ops[i].kind = "fetch"
  /\ ops[i].phase = "started"
  /\ ops[i].ends < MaxEnds
  /\ InputsRead(Branch(FetchHandlerRegistered(cfg),
                       shouldCreateSpan(urlMap, ops[i].url, cfg, predResult),
                       FALSE, TRUE, ops[i].key, activeTransaction),
                defaultShouldCreateSpan(urlMap, ops[i].url, cfg.tracingOrigins),
                predResult, newId, hasResponse)
  /\ ops[i].key # NoKey => args = NoFetchArgs
  /\ fetchCallback(i, [ops[i] EXCEPT !.ends = @ + 1],
                   TRUE, predResult, hasResponse, args, newId)

\* The request headers of an XMLHttpRequest before the callback sets any.
XhrHeaders == [shape |-> "xhr", entries |-> <<>>]

\* xhr.setRequestHeader('sentry-trace', value)
SetRequestHeader(headers, value) ==
  [headers EXCEPT !.entries = Append(@, <<SentryTrace, value>>)]

\* xhrCallback(handlerData, shouldCreateSpan, spans) for operation i, whose
\* persistent part after the event's bookkeeping is `op`.
xhrCallback(i, op, isEnd, predResult, setRequestHeader, newId) ==
  LET eligible == shouldCreateSpan(urlMap, op.url, cfg, predResult)
      branch == Branch(XhrHandlerRegistered(cfg), eligible, op.own, isEnd, op.key,
                       activeTransaction)
      span == startChild(activeTransaction, newId, "xhr", i)
      writes == branch = "start" /\ XhrHeaderWritten(setRequestHeader)
      throws == branch = "start" /\ XhrWriteThrows(setRequestHeader)
      found == RegistryGet(spans, op.key)
  IN
  /\ urlMap' = IF branch = "disabled" THEN urlMap
               ELSE urlMapAfter(urlMap, op.url, cfg.tracingOrigins)
  /\ spans' = spansAfter(spans, branch, op.key, span)
  /\ spanObjs' = spanObjsAfter(spanObjs, spans, branch, op.key, TRUE, span)
  /\ ops' = [ops EXCEPT ![i] = [op EXCEPT !.key = keyAfter(branch, op.key, span)]]
  /\ ev' = [ op |-> i, kind |-> "xhr", isEnd |-> isEnd,
             handled |-> branch # "disabled",
             branch |-> branch, pred |-> predResult, key |-> op.key,
             url |-> op.url,
             cached |-> CachedDecision(urlMap, op.url),
             defaultOk |-> branch # "disabled"
                           /\ defaultShouldCreateSpan(urlMap, op.url, cfg.tracingOrigins),
             matched |-> branch # "disabled" /\ MatchingPerformed(urlMap, op.url),
             eligible |-> eligible,
             txActive |-> activeTransaction.present,
             found |-> IF branch = "end" THEN found ELSE NoSpan,
             created |-> IF branch = "start" THEN Len(spanObjs) + 1 ELSE NoSpan,
             finished |-> IF branch = "end" THEN found ELSE NoSpan,
             hasStatus |-> branch = "end",
             request |-> "string",
             sink |-> setRequestHeader,
             headersBefore |-> XhrHeaders,
             headersAfter |->
               IF writes THEN SetRequestHeader(XhrHeaders, toTraceparent(span))
               ELSE XhrHeaders,
             reqHeadersBefore |-> NoHeaders,
             reqHeadersAfter |-> NoHeaders,
             written |-> writes,
             threw |-> throws ]
  /\ UNCHANGED <<cfg, activeTransaction, hub, codec>>

\* The instrumentation calls the xhr handlers when the request is sent.
XhrStart(i, url, own, predResult, setRequestHeader, newId) ==
  /\ ops[i].phase = "idle"
  /\ i > 1 => ops[i - 1].phase # "idle"
  /\ InputsRead(Branch(XhrHandlerRegistered(cfg), shouldCreateSpan(urlMap, url, cfg, predResult),
                       own, FALSE, NoKey, activeTransaction),
                defaultShouldCreateSpan(urlMap, url, cfg.tracingOrigins),
                predResult, newId, FALSE)
  /\ xhrCallback(i, [IdleOp EXCEPT !.kind = "xhr", !.url = url, !.own = own,
                                   !.phase = "started"],
                 FALSE, predResult, setRequestHeader, newId)

\* ... and again, with endTimestamp, when readyState becomes 4.
XhrEnd(i, predResult, setRequestHeader, newId) ==
  /\ ops[i].kind = "xhr"
  /\ ops[i].phase = "started"
  /\ ops[i].ends < MaxEnds
  /\ InputsRead(Branch(XhrHandlerRegistered(cfg),
                       shouldCreateSpan(urlMap, ops[i].url, cfg, predResult),
                       ops[i].own, TRUE, ops[i].key, activeTransaction),
                defaultShouldCreateSpan(urlMap, ops[i].url, cfg.tracingOrigins),
                predResult, newId, FALSE)
  /\ ops[i].key # NoKey => setRequestHeader = "ok"
  /\ xhrCallback(i, [ops[i] EXCEPT !.ends = @ + 1],
                 TRUE, predResult, setRequestHeader, newId)

\* ------------------------------------------- the hub and the codec, idle

\* No client is bound to the hub and no transaction was started.
NoHub == [bound |-> FALSE]

\* Nothing is on its way through the codec.
NoCodec == [stage |-> "idle"]

\* ------------------------------------------------------ the environment

\* scope.setSpan(transaction): a transaction becomes the active one.
SetTransaction(sampled) ==
  /\ ~activeTransaction.present
  /\ activeTransaction' =
       [present |-> TRUE, traceId |-> TraceIdOfTx, sampled |-> sampled]
  /\ ev' = NoEvent
  /\ UNCHANGED <<cfg, urlMap, spans, spanObjs, ops, hub, codec>>

\* The active transaction finishes or leaves the scope.
ClearTransaction ==
  /\ activeTransaction.present
  /\ activeTransaction' = NoTransaction
  /\ ev' = NoEvent
  /\ UNCHANGED <<cfg, urlMap, spans, spanObjs, ops, hub, codec>>

\* ------------------------------------------------------ the specification

Options ==
  { [tracingOrigins |-> DEFAULT_TRACING_ORIGINS, traceFetch |-> TRUE,
     traceXHR |-> TRUE, hasPredicate |-> p] : p \in BOOLEAN }

Init ==
  /\ cfg \in Options
  /\ urlMap = <<>>
  /\ spans = <<>>
  /\ spanObjs = <<>>
  /\ activeTransaction = NoTransaction
  /\ ops = [i \in OpIds |-> IdleOp]
  /\ ev = NoEvent
  /\ hub = NoHub
  /\ codec = NoCodec

Next ==
  \/ \E i \in OpIds, url \in Urls, own \in BOOLEAN, p \in BOOLEAN,
        h \in XhrSetRequestHeader, id \in SpanIds :
       XhrStart(i, url, own, p, h, id)
  \/ \E i \in OpIds, p \in BOOLEAN, h \in {"ok", "throws"}, id \in SpanIds :
       XhrEnd(i, p, h, id)
  \/ \E i \in OpIds, url \in Urls, p \in BOOLEAN, a \in FetchArgs, id \in SpanIds :
       FetchStart(i, url, p, a, id)
  \/ \E i \in OpIds, p \in BOOLEAN, r \in BOOLEAN, a \in FetchEndArgs, id \in SpanIds :
       FetchEnd(i, p, r, a, id)
  \/ \E s \in BOOLEAN : SetTransaction(s)
  \/ ClearTransaction

Spec == Init /\ [][Next]_vars

\* --------------------------------------- transports switched on and off

\* traceFetch and traceXHR as the caller may set them; no predicate.
TransportOptions ==
  { [tracingOrigins |-> DEFAULT_TRACING_ORIGINS, traceFetch |-> f,
     traceXHR |-> x, hasPredicate |-> FALSE] : f \in BOOLEAN, x \in BOOLEAN }

InitTransports ==
  /\ cfg \in TransportOptions
  /\ urlMap = <<>>
  /\ spans = <<>>
  /\ spanObjs = <<>>
  /\ activeTransaction = NoTransaction
  /\ ops = [i \in OpIds |-> IdleOp]
  /\ ev = NoEvent
  /\ hub = NoHub
  /\ codec = NoCodec

SpecTransports == InitTransports /\ [][Next]_vars

\* ------------------------------------------------- the filter on its own

\* URLs the filter is asked about: relative and absolute ones, with and
\* without the SDK's own 'sentry_key'.
FilterUrls ==
  Urls \cup { <<"http:", "other">>, <<"http:", "localhost">>,
              <<"http:", "localhost", "sentry_key">> }

\* tracingOrigins as configured: the default, none, single strings.
OriginConfigs ==
  { DEFAULT_TRACING_ORIGINS,
    {},
    { [kind |-> "string", s |-> "other"] },
    { [kind |-> "string", s |-> "localhost"], [kind |-> "string", s |-> "api"] } }

FilterOptions ==
  { [tracingOrigins |-> o, traceFetch |-> TRUE, traceXHR |-> TRUE,
     hasPredicate |-> p] : o \in OriginConfigs, p \in BOOLEAN }

\* One call shouldCreateSpan(url), as each callback makes it first.
FilterCall(url, predResult) ==
  LET defaultOk == defaultShouldCreateSpan(urlMap, url, cfg.tracingOrigins) IN
  /\ ~(cfg.hasPredicate /\ defaultOk) => predResult
  /\ urlMap' = urlMapAfter(urlMap, url, cfg.tracingOrigins)
  /\ ev' = [NoEvent EXCEPT
               !.kind = "filter", !.url = url, !.pred = predResult,
               !.cached = CachedDecision(urlMap, url),
               !.defaultOk = defaultOk,
               !.matched = MatchingPerformed(urlMap, url),
               !.eligible = shouldCreateSpan(urlMap, url, cfg, predResult)]
  /\ UNCHANGED <<cfg, spans, spanObjs, activeTransaction, ops, hub, codec>>

InitFilter ==
  /\ cfg \in FilterOptions
  /\ urlMap = <<>>
  /\ spans = <<>>
  /\ spanObjs = <<>>
  /\ activeTransaction = NoTransaction
  /\ ops = [i \in OpIds |-> IdleOp]
  /\ ev = NoEvent
  /\ hub = NoHub
  /\ codec = NoCodec

NextFilter ==
  \E url \in FilterUrls, p \in BOOLEAN : FilterCall(url, p)

SpecFilter == InitFilter /\ [][NextFilter]_vars

\* ------------------------------------------------- the sampling decision

\* Children a transaction is given in a run.
MaxChildren == 2

\* The three states of `sampled`: undefined, true, false.
Decisions == {"Unset", "Sampled", "NotSampled"}

Decision(b) == IF b THEN "Sampled" ELSE "NotSampled"

\* A value found as tracesSampleRate or returned by tracesSampler. Numbers are
\* written in hundredths (pct 50 is 0.5, pct -2600 is -26).
RateValue(type, b, pct) == [type |-> type, b |-> b, pct |-> pct]

NoRate == RateValue("undefined", FALSE, 0)

ValidRates ==
  { RateValue("boolean", TRUE, 0), RateValue("boolean", FALSE, 0),
    RateValue("number", FALSE, 0), RateValue("number", FALSE, 50),
    RateValue("number", FALSE, 100) }

\* 'dogs!', NaN, -26, 26
InvalidRates ==
  { RateValue("string", FALSE, 0), RateValue("NaN", FALSE, 0),
    RateValue("number", FALSE, -2600), RateValue("number", FALSE, 2600) }

SampleValues == ValidRates \cup InvalidRates

\* Math.random(), in hundredths: a draw in [0, 1).
Draws == {0, 49, 50, 99}

\* A validation that checks the type and not the range.
isValidSampleRate_NoRange(rate) ==
  rate.type \in {"boolean", "number"}

\* isValidSampleRate: a boolean, or a number that is not NaN and lies in
\* [0, 1]; anything else is rejected with a warning.
isValidSampleRate(rate) ==
  IF rate.type \notin {"boolean", "number"} THEN FALSE
  ELSE IF rate.type = "number" /\ (rate.pct < 0 \/ rate.pct > 100) THEN FALSE
  ELSE TRUE

\* A valid rate against a draw: a boolean passes through, a number samples
\* iff the draw is below it.
DrawBelow(rate, draw) ==
  IF rate.type = "boolean" THEN rate.b ELSE draw < rate.pct

\* The decision from the value the precedence consults: invalid values warn
\* and give NotSampled.
FromRate(rate, draw) ==
  IF ~isValidSampleRate(rate)
  THEN [sampled |-> "NotSampled", warned |-> TRUE, threw |-> FALSE]
  ELSE [sampled |-> Decision(DrawBelow(rate, draw)), warned |-> FALSE,
        threw |-> FALSE]

\* A precedence that consults the fixed rate before the parent's decision.
sample_RateBeforeParent(options, explicit, parentSampled, samplerValue, draw) ==
  IF explicit # "Unset"
  THEN [sampled |-> explicit, warned |-> FALSE, threw |-> FALSE]
  ELSE IF options.hasSampler
  THEN FromRate(samplerValue, draw)
  ELSE IF options.sampleRate # NoRate
  THEN FromRate(options.sampleRate, draw)
  ELSE IF parentSampled # "Unset"
  THEN [sampled |-> parentSampled, warned |-> FALSE, threw |-> FALSE]
  ELSE [sampled |-> "NotSampled", warned |-> FALSE, threw |-> FALSE]

\* sample(): the decision of a new transaction, first match wins: the
\* caller's explicit value, the sampler's return value, the parent's
\* decision, the fixed rate, else tracing is off.
sample(options, explicit, parentSampled, samplerValue, draw) ==
  IF explicit # "Unset"
  THEN [sampled |-> explicit, warned |-> FALSE, threw |-> FALSE]
  ELSE IF options.hasSampler
  THEN FromRate(samplerValue, draw)
  ELSE IF parentSampled # "Unset"
  THEN [sampled |-> parentSampled, warned |-> FALSE, threw |-> FALSE]
  ELSE IF options.sampleRate # NoRate
  THEN FromRate(options.sampleRate, draw)
  ELSE [sampled |-> "NotSampled", warned |-> FALSE, threw |-> FALSE]

\* Client options: tracesSampler configured or not, tracesSampleRate.
SamplingOptions ==
  [hasSampler : BOOLEAN, sampleRate : {NoRate} \cup SampleValues]

NoContext ==
  [explicit |-> "Unset", parentSampled |-> "Unset", samplerValue |-> NoRate,
   draw |-> 0]

NoHubTransaction ==
  [present |-> FALSE, traceId |-> TraceIdOfTx, sampled |-> "Unset",
   finished |-> FALSE]

\* Which of its inputs sample() reads; the others are fixed to one value.
SampleInputsRead(options, explicit, parentSampled, samplerValue, draw) ==
  LET consulted ==
        IF explicit # "Unset" THEN NoRate
        ELSE IF options.hasSampler THEN samplerValue
        ELSE IF parentSampled # "Unset" THEN NoRate
        ELSE options.sampleRate
  IN /\ ~(explicit = "Unset" /\ options.hasSampler) => samplerValue = NoRate
     /\ (explicit = "Unset" /\ options.hasSampler) => samplerValue # NoRate
     /\ ~(consulted.type = "number" /\ isValidSampleRate(consulted)) => draw = 0

\* hub.startTransaction(context): creates the transaction and samples it.
StartTransaction(explicit, parentSampled, samplerValue, draw) ==
  LET decided == sample(hub.options, explicit, parentSampled, samplerValue, draw) IN
  /\ hub.bound
  /\ ~hub.transaction.present \/ hub.transaction.finished
  /\ SampleInputsRead(hub.options, explicit, parentSampled, samplerValue, draw)
  /\ hub' = [hub EXCEPT
                !.transaction = [present |-> TRUE, traceId |-> TraceIdOfTx,
                                 sampled |-> decided.sampled, finished |-> FALSE],
                !.children = <<>>,
                !.context = [explicit |-> explicit, parentSampled |-> parentSampled,
                             samplerValue |-> samplerValue, draw |-> draw],
                !.warned = decided.warned,
                !.threw = decided.threw,
                !.captured = FALSE,
                !.result = "none",
                !.last = "startTransaction"]
  /\ UNCHANGED <<cfg, urlMap, spans, spanObjs, activeTransaction, ops, ev, codec>>

\* A child that samples for itself against the configured rate.
StartChild_Recomputes(spanId) ==
  /\ hub.bound /\ hub.transaction.present
  /\ Len(hub.children) < MaxChildren
  /\ \E draw \in Draws :
       hub' = [hub EXCEPT
                 !.children =
                   Append(@, [startChild(hub.transaction, spanId, "child", 0)
                                EXCEPT !.sampled =
                                  FromRate(hub.options.sampleRate, draw).sampled]),
                 !.last = "startChild"]
  /\ UNCHANGED <<cfg, urlMap, spans, spanObjs, activeTransaction, ops, ev, codec>>

\* transaction.startChild(...), at any time after the transaction started.
StartChild(spanId) ==
  /\ hub.bound /\ hub.transaction.present
  /\ Len(hub.children) < MaxChildren
  /\ hub' = [hub EXCEPT
                !.children = Append(@, startChild(hub.transaction, spanId, "child", 0)),
                !.last = "startChild"]
  /\ UNCHANGED <<cfg, urlMap, spans, spanObjs, activeTransaction, ops, ev, codec>>

\* A finish that hands every transaction to the client.
FinishTransaction_AlwaysCaptures ==
  /\ hub.bound /\ hub.transaction.present /\ ~hub.transaction.finished
  /\ hub' = [hub EXCEPT
                !.transaction.finished = TRUE,
                !.captured = TRUE,
                !.result = "eventId",
                !.last = "finish"]
  /\ UNCHANGED <<cfg, urlMap, spans, spanObjs, activeTransaction, ops, ev, codec>>

\* transaction.finish(): an unsampled transaction is dropped (returns
\* undefined, nothing goes to the client); a sampled one is captured.
FinishTransaction ==
  /\ hub.bound /\ hub.transaction.present /\ ~hub.transaction.finished
  /\ hub' = [hub EXCEPT
                !.transaction.finished = TRUE,
                !.captured = (hub.transaction.sampled = "Sampled"),
                !.result = IF hub.transaction.sampled = "Sampled"
                           THEN "eventId" ELSE "undefined",
                !.last = "finish"]
  /\ UNCHANGED <<cfg, urlMap, spans, spanObjs, activeTransaction, ops, ev, codec>>

InitSampling ==
  /\ cfg \in Options
  /\ urlMap = <<>>
  /\ spans = <<>>
  /\ spanObjs = <<>>
  /\ activeTransaction = NoTransaction
  /\ ops = [i \in OpIds |-> IdleOp]
  /\ ev = NoEvent
  /\ hub \in { [bound |-> TRUE, options |-> o, transaction |-> NoHubTransaction,
                 children |-> <<>>, context |-> NoContext, warned |-> FALSE,
                 threw |-> FALSE, captured |-> FALSE, result |-> "none",
                 last |-> "none"] : o \in SamplingOptions }
  /\ codec = NoCodec

NextSampling ==
  \/ \E explicit \in Decisions, parentSampled \in Decisions,
        samplerValue \in {NoRate} \cup SampleValues, draw \in Draws :
       StartTransaction(explicit, parentSampled, samplerValue, draw)
  \/ \E id \in SpanIds : StartChild(id)
  \/ FinishTransaction

SpecSampling == InitSampling /\ [][NextSampling]_vars

\* ------------------------------------------------- the trace-context codec

\* Lengths of the two identifiers on the wire, in hex characters.
TraceIdLen == 32
SpanIdLen == 16

HexChars ==
  {"0", "1", "2", "3", "4", "5", "6", "7", "8", "9", "a", "b", "c", "d", "e", "f"}

\* An identifier of `len` characters that alternates two of them.
HexToken(len, a, b) ==
  [n \in 1..len |-> IF n % 2 = 1 THEN a ELSE b]

\* Trace ids and span ids a context may carry.
WireTraceIds == { HexToken(TraceIdLen, a, b) : a, b \in {"0", "9", "a", "f"} }
WireSpanIds == { HexToken(SpanIdLen, a, b) : a, b \in {"1", "c"} }

SpanContexts ==
  [traceId : WireTraceIds, spanId : WireSpanIds, sampled : Decisions]

NoSpanContext == [valid |-> FALSE, traceId |-> <<>>, spanId |-> <<>>, sampled |-> "Unset"]

\* A serializer that tests the flag for truthiness and so writes none for a
\* NotSampled context.
Serialize_FlagIfTruthy(context) ==
  context.traceId \o <<"-">> \o context.spanId
    \o (IF context.sampled = "Sampled" THEN <<"-", "1">> ELSE <<>>)

\* The header value of a context: trace id, "-", span id, and "-1" or "-0"
\* unless the decision is unset.
Serialize(context) ==
  context.traceId \o <<"-">> \o context.spanId
    \o (IF context.sampled = "Unset" THEN <<>>
        ELSE IF context.sampled = "Sampled" THEN <<"-", "1">>
        ELSE <<"-", "0">>)

IsHex(chars) == \A n \in 1..Len(chars) : chars[n] \in HexChars

\* Parsing a header value: the exact grammar or no context.
Parse(header) ==
  LET short == TraceIdLen + 1 + SpanIdLen
      long == short + 2
  IN IF Len(header) \notin {short, long} THEN NoSpanContext
     ELSE IF ~IsHex(SubSeq(header, 1, TraceIdLen)) THEN NoSpanContext
     ELSE IF header[TraceIdLen + 1] # "-" THEN NoSpanContext
     ELSE IF ~IsHex(SubSeq(header, TraceIdLen + 2, short)) THEN NoSpanContext
     ELSE IF Len(header) = long
               /\ (header[short + 1] # "-" \/ header[long] \notin {"0", "1"})
          THEN NoSpanContext
     ELSE [valid |-> TRUE,
           traceId |-> SubSeq(header, 1, TraceIdLen),
           spanId |-> SubSeq(header, TraceIdLen + 2, short),
           sampled |-> IF Len(header) = short THEN "Unset"
                       ELSE IF header[long] = "1" THEN "Sampled"
                       ELSE "NotSampled"]

\* A span context is picked for sending.
ChooseContext(context) ==
  /\ codec.stage \in {"idle", "parsed"}
  /\ codec' = [stage |-> "context", context |-> context, header |-> <<>>,
               parsed |-> NoSpanContext]
  /\ UNCHANGED <<cfg, urlMap, spans, spanObjs, activeTransaction, ops, ev, hub>>

\* The sender serializes it into the header value.
SerializeContext ==
  /\ codec.stage = "context"
  /\ codec' = [codec EXCEPT !.stage = "header", !.header = Serialize(codec.context)]
  /\ UNCHANGED <<cfg, urlMap, spans, spanObjs, activeTransaction, ops, ev, hub>>

\* The receiver parses the header value.
ParseHeader ==
  /\ codec.stage = "header"
  /\ codec' = [codec EXCEPT !.stage = "parsed", !.parsed = Parse(codec.header)]
  /\ UNCHANGED <<cfg, urlMap, spans, spanObjs, activeTransaction, ops, ev, hub>>

InitCodec ==
  /\ cfg \in Options
  /\ urlMap = <<>>
  /\ spans = <<>>
  /\ spanObjs = <<>>
  /\ activeTransaction = NoTransaction
  /\ ops = [i \in OpIds |-> IdleOp]
  /\ ev = NoEvent
  /\ hub = NoHub
  /\ codec = NoCodec

NextCodec ==
  \/ \E context \in SpanContexts : ChooseContext(context)
  \/ SerializeContext
  \/ ParseHeader

SpecCodec == InitCodec /\ [][NextCodec]_vars

\* ------------------------------------------------------------- the claims

\* The event the last step delivered was handled by a callback.
Delivered(e) == e.op # 0 /\ e.handled

\* No operation is in flight: every operation that had its start event has
\* had an end event.
NoneInFlight ==
  \A i \in OpIds : ops[i].phase = "started" => ops[i].ends >= 1

\* The URL of the event is one the filter rejects, read off the configuration
\* and the predicate's answer, not off the callback's own decision.
Ineligible(e, url) ==
  \/ ~MatchOrigins(url, cfg.tracingOrigins)
  \/ cfg.hasPredicate /\ ~e.pred

\* C1: under any interleaving of start and end events (duplicate and late end
\* events included) every span is finished at most once, and the event that
\* finishes it is an end event carrying the span's own id as its key.
C1_FinishedAtMostOnce ==
  /\ \A r \in 1..Len(spanObjs) :
       /\ spanObjs[r].finished <= 1
       /\ spanObjs[r].finished = 1 => spanObjs[r].finishedByKey = spanObjs[r].spanId
  /\ ev.finished # NoSpan =>
       ev.isEnd /\ ev.key = spanObjs[ev.finished].spanId

\* Two spans were created, one of them is finished, and the operation that
\* created it has delivered a second (duplicate) end event since.
C1_Witness ==
  /\ Len(spanObjs) >= 2
  /\ \E r \in 1..Len(spanObjs) :
       /\ spanObjs[r].finished = 1
       /\ ops[spanObjs[r].creator].ends >= 2
       /\ ev.op = spanObjs[r].creator /\ ev.branch = "end" /\ ev.found = NoSpan

\* C2: an end event whose key is in the registry finishes that span and
\* removes the entry, whatever the caller's predicate returns on that event.
C2_EndFinishesRegistered ==
  [][ (Delivered(ev') /\ ev'.isEnd /\ ev'.key # NoKey /\ ev'.key \in DOMAIN spans)
        => /\ ev'.finished = spans[ev'.key]
           /\ spanObjs'[spans[ev'.key]].finished = spanObjs[spans[ev'.key]].finished + 1
           /\ ev'.key \notin DOMAIN spans' ]_vars

C4_EndWithoutKeyNoOp ==
  (Delivered(ev) /\ ev.isEnd /\ ev.key = NoKey)
    => /\ ev.created = NoSpan
       /\ ~ev.written
       /\ ops[ev.op].key = NoKey

\* C5: with no operation in flight the registry is empty.
C5_EmptyWhenNoneInFlight ==
  NoneInFlight => DOMAIN spans = {}

\* C6: registering a span under a key that is in the registry leaves the
\* prior entry as it was.
C6_NoOverwrite ==
  [][ (Delivered(ev') /\ ev'.created # NoSpan
         /\ spanObjs'[ev'.created].spanId \in DOMAIN spans)
        => spans'[spanObjs'[ev'.created].spanId] = spans[spanObjs'[ev'.created].spanId]
     ]_vars

\* C7 (as stated): every start event on an eligible URL with a transaction
\* active leaves the 'sentry-trace' header of the new span on the operation.
C7_HeaderAlwaysAttached ==
  (Delivered(ev) /\ ~ev.isEnd /\ ev.branch = "start")
    => HasHeader(ev.headersAfter, SentryTrace, toTraceparent(spanObjs[ev.created]))

\* C7 (amended): such a start event creates and registers the span, and leaves
\* the header on the operation exactly when the sink takes the write; when the
\* write fails (setRequestHeader absent or throwing, append throwing) the
\* operation's headers are as before.
C7_HeaderAttachedUnlessWriteFails ==
  (Delivered(ev) /\ ~ev.isEnd /\ ev.branch = "start")
    => /\ ev.created # NoSpan
       /\ RegistryGet(spans, spanObjs[ev.created].spanId) = ev.created
       /\ ev.sink = "ok" =>
            HasHeader(ev.headersAfter, SentryTrace,
                      toTraceparent(spanObjs[ev.created]))
       /\ ev.sink # "ok" =>
            /\ ev.headersAfter = ev.headersBefore
            /\ ev.reqHeadersAfter = ev.reqHeadersBefore

\* A fetch start event on an eligible URL, under an active transaction, wrote
\* the new span's header into the caller's array of pairs.
C7_Witness ==
  /\ ev.branch = "start" /\ ~ev.isEnd /\ ev.kind = "fetch"
  /\ ev.headersBefore.shape = "array"
  /\ HasHeader(ev.headersAfter, SentryTrace, toTraceparent(spanObjs[ev.created]))

\* C8: no header write failure leaves a callback as an exception.
C8_WriteFailureCaught ==
  ~ev.threw

\* C9: a fetch header write adds the 'sentry-trace' value once and every
\* header the operation carried before (in options.headers or in the
\* Request's headers) is still there afterwards.
C9_WriteOncePreserving ==
  (Delivered(ev) /\ ev.kind = "fetch" /\ ev.written)
    => /\ Cardinality({ n \in 1..Len(ev.headersAfter.entries) :
                          ev.headersAfter.entries[n][1] = SentryTrace }) = 1
       /\ KeepsHeaders(ev.headersBefore, ev.headersAfter)
       /\ KeepsHeaders(ev.reqHeadersBefore, ev.reqHeadersAfter)

\* C10: a start event on an ineligible URL creates no span, adds no registry
\* entry, stores no key on the event and leaves the headers as they were.
C10_IneligibleStartNoEffect ==
  [][ (Delivered(ev') /\ ~ev'.isEnd /\ Ineligible(ev', ops'[ev'.op].url))
        => /\ spans' = spans
           /\ spanObjs' = spanObjs
           /\ ev'.created = NoSpan
           /\ ops'[ev'.op].key = NoKey
           /\ ev'.headersAfter = ev'.headersBefore
           /\ ev'.reqHeadersAfter = ev'.reqHeadersBefore
           /\ ~ev'.threw ]_vars

\* A start event on a filtered URL, with a transaction active and headers
\* passed by the caller: only the filter stands between it and a span.
C10_Witness ==
  /\ Delivered(ev) /\ ~ev.isEnd /\ ev.branch = "filtered"
  /\ Ineligible(ev, ops[ev.op].url)
  /\ ev.txActive
  /\ ev.headersBefore.shape = "object"

\* The URL matches one of the configured origins and not 'sentry_key'.
MatchesAnOriginNotSentry(url) ==
  /\ \E origin \in cfg.tracingOrigins : isMatchingPattern(url, origin)
  /\ ~isMatchingPattern(url, SentryKeyPattern)

\* C11: on every call, for a URL seen before or not, the default filter
\* answers true exactly when the URL matches a configured origin and does not
\* match 'sentry_key'.
C11_FilterDecision ==
  ev.kind = "filter" => (ev.defaultOk <=> MatchesAnOriginNotSentry(ev.url))

\* A repeated call on an accepted URL, answered from the cache, and one of the
\* default origins matched it.
C11_Witness ==
  /\ ev.kind = "filter" /\ ev.cached = "true" /\ ~ev.matched /\ ev.defaultOk
  /\ cfg.tracingOrigins = DEFAULT_TRACING_ORIGINS

\* C12: a call for a URL the filter was called with before evaluates no
\* pattern, whether the earlier decision was true or false.
C12_MatchOncePerUrl ==
  (ev.kind = "filter" /\ ev.cached # "none") => ~ev.matched

\* C13: a repeated call returns what the earlier call for that URL returned,
\* and that is what evaluating the patterns afresh gives.
C13_CacheKeepsDecision ==
  (ev.kind = "filter" /\ ev.cached # "none")
    => /\ ev.defaultOk <=> (ev.cached = "true")
       /\ ev.defaultOk <=> MatchesAnOriginNotSentry(ev.url)
       /\ urlMap[ev.url] = ev.defaultOk

\* A repeated call on a URL whose earlier decision was false.
C13_Witness ==
  /\ ev.kind = "filter" /\ ev.cached = "false" /\ ~ev.defaultOk
  /\ \E origin \in cfg.tracingOrigins : isMatchingPattern(ev.url, origin)

\* C14: with a caller's predicate the decision is true only if the default
\* filter accepts the URL and the predicate returns true; a URL the default
\* filter rejects gets no span and no header.
C14_PredicateOnlyNarrows ==
  Delivered(ev)
    => /\ ev.eligible =>
            MatchesAnOriginNotSentry(ev.url) /\ (cfg.hasPredicate => ev.pred)
       /\ ~MatchesAnOriginNotSentry(ev.url) =>
            ev.created = NoSpan /\ ~ev.written

\* The predicate rejected a start event on a URL the default filter accepts,
\* under an active transaction: no span.
C14_Witness ==
  /\ Delivered(ev) /\ ~ev.isEnd /\ cfg.hasPredicate
  /\ MatchesAnOriginNotSentry(ev.url) /\ ~ev.pred
  /\ ev.txActive /\ ev.created = NoSpan /\ ~ev.written

\* C15: a start event of a traced operation under an active transaction
\* creates a child span with the transaction's sampled value, and the header
\* it writes carries the transaction's trace id, the span's id and the flag 1
\* for a sampled transaction, 0 for an unsampled one; whether the header is
\* written depends on the sink alone, not on the decision.
C15_HeaderCarriesDecision ==
  (Delivered(ev) /\ ~ev.isEnd /\ ~Ineligible(ev, ev.url) /\ ~ops[ev.op].own
     /\ ev.txActive)
    => /\ ev.created # NoSpan
       /\ spanObjs[ev.created].sampled = activeTransaction.sampled
       /\ ev.written <=> (ev.sink = "ok")
       /\ ev.written =>
            HasHeader(ev.headersAfter, SentryTrace,
                      << activeTransaction.traceId, spanObjs[ev.created].spanId,
                         IF activeTransaction.sampled THEN 1 ELSE 0 >>)

\* An XHR start event under an unsampled transaction wrote a header with the
\* flag 0, and its span is unsampled.
C15_Witness ==
  /\ Delivered(ev) /\ ~ev.isEnd /\ ev.kind = "xhr" /\ ev.written
  /\ ~activeTransaction.sampled /\ ev.created # NoSpan
  /\ ~spanObjs[ev.created].sampled
  /\ \E n \in 1..Len(ev.headersAfter.entries) :
       /\ ev.headersAfter.entries[n][1] = SentryTrace
       /\ ev.headersAfter.entries[n][2][3] = 0

\* The decision the precedence prescribes from the value it consults: true,
\* or a number in [0, 1] above the draw, samples; everything else does not.
Used(rate, draw) ==
  IF \/ rate.type = "boolean" /\ rate.b
     \/ rate.type = "number" /\ rate.pct >= 0 /\ rate.pct <= 100 /\ draw < rate.pct
  THEN "Sampled" ELSE "NotSampled"

\* A transaction was just started and sampled.
JustStarted == hub.bound /\ hub.last = "startTransaction"

\* C16: the decision of a new transaction is the explicit value when given;
\* else the sampler's result; else the parent's decision; else the fixed rate
\* against the draw (rate 1 always sampled, rate 0 never); else NotSampled.
C16_SamplingPrecedence ==
  JustStarted =>
    LET c == hub.context
        o == hub.options
        d == hub.transaction.sampled
    IN /\ c.explicit # "Unset" => d = c.explicit
       /\ (c.explicit = "Unset" /\ o.hasSampler) => d = Used(c.samplerValue, c.draw)
       /\ (c.explicit = "Unset" /\ ~o.hasSampler /\ c.parentSampled # "Unset")
            => d = c.parentSampled
       /\ (c.explicit = "Unset" /\ ~o.hasSampler /\ c.parentSampled = "Unset"
             /\ o.sampleRate # NoRate)
            => /\ d = Used(o.sampleRate, c.draw)
               /\ o.sampleRate = RateValue("number", FALSE, 100) => d = "Sampled"
               /\ o.sampleRate = RateValue("number", FALSE, 0) => d = "NotSampled"
       /\ (c.explicit = "Unset" /\ ~o.hasSampler /\ c.parentSampled = "Unset"
             /\ o.sampleRate = NoRate)
            => d = "NotSampled"

\* A parent's NotSampled was copied although the fixed rate is 1.
C16_Witness ==
  /\ JustStarted /\ ~hub.options.hasSampler
  /\ hub.context.explicit = "Unset" /\ hub.context.parentSampled = "NotSampled"
  /\ hub.options.sampleRate = RateValue("number", FALSE, 100)
  /\ hub.transaction.sampled = "NotSampled"

\* C17 (as stated): whenever the configured rate or the value the sampler
\* returned is invalid, the start warns, decides NotSampled and throws
\* nothing.
C17_InvalidRateAlwaysWarns ==
  (JustStarted /\ (hub.options.sampleRate \in InvalidRates
                     \/ hub.context.samplerValue \in InvalidRates))
    => hub.warned /\ hub.transaction.sampled = "NotSampled" /\ ~hub.threw

\* The value the precedence consults for the started transaction: the
\* sampler's return value, or the fixed rate when there is neither an explicit
\* value, a sampler nor a parent decision; NoRate when it consults none.
Consulted ==
  IF hub.context.explicit # "Unset" THEN NoRate
  ELSE IF hub.options.hasSampler THEN hub.context.samplerValue
  ELSE IF hub.context.parentSampled # "Unset" THEN NoRate
  ELSE hub.options.sampleRate

\* C17 (amended): when the value the precedence consults is invalid, the
\* start warns, decides NotSampled and throws nothing; an invalid rate that is
\* not consulted neither warns nor changes the decision.
C17_ConsultedInvalidWarns ==
  JustStarted =>
    /\ Consulted \in InvalidRates
         => hub.warned /\ hub.transaction.sampled = "NotSampled" /\ ~hub.threw
    /\ Consulted \notin InvalidRates => ~hub.warned /\ ~hub.threw

\* The sampler returned a number above 1: warned, NotSampled.
C17_Witness ==
  /\ JustStarted /\ Consulted = RateValue("number", FALSE, 2600)
  /\ hub.options.hasSampler
  /\ hub.warned /\ hub.transaction.sampled = "NotSampled"

\* C18: no step other than the start of a transaction changes the
\* transaction's decision, and after every step each child span has the
\* transaction's decision.
C18_DecisionFixed ==
  [][ (hub'.bound /\ hub'.last # "startTransaction")
        => /\ hub'.transaction.sampled = hub.transaction.sampled
           /\ \A n \in 1..Len(hub'.children) :
                hub'.children[n].sampled = hub'.transaction.sampled
    ]_vars

\* A second child was created after the transaction finished, under a rate of
\* 0.5 that sampled the transaction; both children are sampled.
C18_Witness ==
  /\ hub.bound /\ hub.last = "startChild" /\ hub.transaction.finished
  /\ Consulted = RateValue("number", FALSE, 50)
  /\ hub.transaction.sampled = "Sampled"
  /\ Len(hub.children) = MaxChildren
  /\ \A n \in 1..Len(hub.children) : hub.children[n].sampled = "Sampled"

\* C19: finishing a NotSampled transaction returns nothing and hands no event
\* to the client.
C19_UnsampledDropped ==
  (hub.bound /\ hub.last = "finish" /\ hub.transaction.sampled = "NotSampled")
    => hub.result = "undefined" /\ ~hub.captured

\* A transaction the rate 0 left unsampled was finished and dropped.
C19_Witness ==
  /\ hub.bound /\ hub.last = "finish" /\ hub.transaction.sampled = "NotSampled"
  /\ Consulted = RateValue("number", FALSE, 0)
  /\ hub.result = "undefined" /\ ~hub.captured

\* C20: parsing the serialized value of a span context gives back its trace
\* id, span id and decision; the value has no flag for Unset, ends in "-1" for
\* Sampled and in "-0" for NotSampled.
C20_CodecRoundTrip ==
  codec.stage = "parsed" =>
    LET h == codec.header
        body == TraceIdLen + 1 + SpanIdLen
    IN /\ codec.parsed.valid
       /\ codec.parsed.traceId = codec.context.traceId
       /\ codec.parsed.spanId = codec.context.spanId
       /\ codec.parsed.sampled = codec.context.sampled
       /\ codec.context.sampled = "Unset" => Len(h) = body
       /\ codec.context.sampled = "Sampled"
            => Len(h) = body + 2 /\ SubSeq(h, body + 1, body + 2) = <<"-", "1">>
       /\ codec.context.sampled = "NotSampled"
            => Len(h) = body + 2 /\ SubSeq(h, body + 1, body + 2) = <<"-", "0">>

\* A NotSampled context came back from its header value as NotSampled.
C20_Witness ==
  /\ codec.stage = "parsed" /\ codec.context.sampled = "NotSampled"
  /\ codec.parsed.valid /\ codec.parsed.sampled = "NotSampled"
  /\ codec.parsed.traceId = HexToken(TraceIdLen, "a", "f")

\* C21: a start event on an eligible URL with no transaction active creates
\* no span, adds no registry entry, stores no key on the event and leaves the
\* event's headers as they were.
C21_NoTransactionNoEffect ==
  [][ (Delivered(ev') /\ ~ev'.isEnd /\ ~Ineligible(ev', ev'.url)
         /\ ~activeTransaction.present)
        => /\ ev'.created = NoSpan
           /\ spanObjs' = spanObjs
           /\ spans' = spans
           /\ ops'[ev'.op].key = NoKey
           /\ ~ev'.written
           /\ ev'.headersAfter = ev'.headersBefore
           /\ ev'.reqHeadersAfter = ev'.reqHeadersBefore
    ]_vars

\* A fetch start event on an eligible URL found no transaction, while a span
\* of an earlier operation was pending; the caller had passed headers.
C21_Witness ==
  /\ Delivered(ev) /\ ~ev.isEnd /\ ev.kind = "fetch"
  /\ ~Ineligible(ev, ev.url) /\ ~ev.txActive /\ ~activeTransaction.present
  /\ ev.branch = "noTransaction"
  /\ ev.headersBefore.shape = "object"
  /\ DOMAIN spans # {}

\* C22: the entry of a pending key k leaves the registry only in a step that
\* is an end event carrying k (no other event and no passing of time removes
\* it), and events of operations whose key is another one, start or end,
\* fetch or XHR, leave k's entry and its span as they were.
C22_RemovedOnlyByOwnEnd ==
  [][ \A k \in DOMAIN spans :
        LET ownEnd == Delivered(ev') /\ ev'.isEnd /\ ev'.key = k
            sameKey == Delivered(ev') /\ ops'[ev'.op].key = k
        IN /\ ~ownEnd => k \in DOMAIN spans'
           /\ ~sameKey => /\ k \in DOMAIN spans'
                          /\ spans'[k] = spans[k]
                          /\ spanObjs'[spans[k]] = spanObjs[spans[k]]
    ]_vars

\* An XHR end event finished and removed the span of its own key while the
\* span of a fetch, registered under another key, stayed pending.
C22_Witness ==
  /\ Delivered(ev) /\ ev.isEnd /\ ev.kind = "xhr" /\ ev.finished # NoSpan
  /\ ev.key \notin DOMAIN spans
  /\ \E k \in DOMAIN spans :
       /\ k # ev.key
       /\ spanObjs[spans[k]].type = "fetch"
       /\ spanObjs[spans[k]].finished = 0

\* C23: an event of an XHR flagged as the SDK's own request, start or end,
\* on any URL, with or without an active transaction, creates no span, adds
\* no registry entry, finishes no span and writes no header.
C23_OwnRequestNeverTraced ==
  [][ (Delivered(ev') /\ ev'.kind = "xhr" /\ ops'[ev'.op].own)
        => /\ ev'.created = NoSpan
           /\ ev'.finished = NoSpan
           /\ spans' = spans
           /\ spanObjs' = spanObjs
           /\ ops'[ev'.op].key = NoKey
           /\ ~ev'.written
           /\ ev'.headersAfter = ev'.headersBefore
    ]_vars

\* The end event of an own request on a URL the filter accepts, under an
\* active transaction, with the span of another operation pending.
C23_Witness ==
  /\ Delivered(ev) /\ ev.kind = "xhr" /\ ops[ev.op].own /\ ev.isEnd
  /\ ev.eligible /\ ev.branch = "own" /\ ev.txActive
  /\ ev.sink = "ok"
  /\ DOMAIN spans # {}

\* The event of the step is one of a transport of this kind, handled or not.
EventOf(e, kind) == e.op # 0 /\ e.kind = kind

\* A start event that is to be traced: URL accepted, a transaction active
\* (and the request is not the SDK's own).
Traceable(e) ==
  ~e.isEnd /\ ~Ineligible(e, e.url) /\ e.txActive

\* C24: events of a transport whose flag is false are not handled and change
\* neither registry, spans, URL cache, key nor headers; events of a transport
\* whose flag is true are handled whatever the other flag is, and a traceable
\* start event among them creates and registers its span; all handled events
\* work on the one registry and the one URL cache, whose other entries they
\* keep.
C24_TransportsIndependent ==
  [][ /\ \A kind \in {"fetch", "xhr"} :
           LET enabled == IF kind = "fetch" THEN cfg.traceFetch ELSE cfg.traceXHR IN
           EventOf(ev', kind) =>
             /\ ev'.handled <=> enabled
             /\ ~enabled =>
                  /\ spans' = spans /\ spanObjs' = spanObjs /\ urlMap' = urlMap
                  /\ ops'[ev'.op].key = NoKey
                  /\ ev'.created = NoSpan /\ ~ev'.written
             /\ (enabled /\ Traceable(ev') /\ ~ops'[ev'.op].own) =>
                  /\ ev'.created # NoSpan
                  /\ RegistryGet(spans', ops'[ev'.op].key) = ev'.created
             /\ enabled =>
                  /\ ev'.url \in DOMAIN urlMap'
                  /\ \A u \in DOMAIN urlMap : u \in DOMAIN urlMap' /\ urlMap'[u] = urlMap[u]
                  /\ \A k \in DOMAIN spans :
                       (k # ops'[ev'.op].key) => (k \in DOMAIN spans' /\ spans'[k] = spans[k])
    ]_vars

\* With traceFetch false and traceXHR true, a fetch start event under an
\* active transaction went unhandled while the span of an XHR is registered.
C24_Witness ==
  /\ ~cfg.traceFetch /\ cfg.traceXHR
  /\ EventOf(ev, "fetch") /\ ~ev.handled /\ ~ev.isEnd
  /\ activeTransaction.present
  /\ \E k \in DOMAIN spans : spanObjs[spans[k]].type = "xhr"

\* C25: every registry entry is keyed by the id of the span it holds, that id
\* is the key stored on the event of the operation the span was created for,
\* and the span is unfinished; the event that creates a span carries away the
\* span's id as its key.
C25_RegistryKeyedBySpanId ==
  /\ \A k \in DOMAIN spans :
       /\ spanObjs[spans[k]].spanId = k
       /\ spanObjs[spans[k]].finished = 0
       /\ ops[spanObjs[spans[k]].creator].key = k
  /\ (Delivered(ev) /\ ev.created # NoSpan)
       => /\ ops[ev.op].key = spanObjs[ev.created].spanId
          /\ RegistryGet(spans, ops[ev.op].key) = ev.created

\* An XHR start event registered its span next to the pending span of a
\* fetch, each under its own id, and took that id as its key.
C25_Witness ==
  /\ Delivered(ev) /\ ev.kind = "xhr" /\ ~ev.isEnd /\ ev.created # NoSpan
  /\ ops[ev.op].key = spanObjs[ev.created].spanId
  /\ Cardinality(DOMAIN spans) = 2
  /\ \E k \in DOMAIN spans :
       spanObjs[spans[k]].type = "fetch" /\ spanObjs[spans[k]].finished = 0

====
